---- MODULE Spec2Model ----
(***************************************************************************)
(* Model of src/main.py: the three rate providers (ECB fiat basket, Yahoo  *)
(* fiat pair, Binance crypto ticker), their shared in-process CACHE and    *)
(* the /convert router.                                                    *)
(*                                                                         *)
(* A request is a process that moves through the handler.  Requests        *)
(* overlap where the handler blocks on the network (requests.get): a step  *)
(* of a request runs the handler from where it is to its next upstream     *)
(* request, or to its end.  A provider call that misses the cache is two   *)
(* steps: the cache test that sends the upstream request, and the arrival  *)
(* of the upstream response.                                               *)
(***************************************************************************)
EXTENDS Integers, Sequences, FiniteSets, TLC

(***************************************************************************)
(* Bounds of the model.                                                    *)
(***************************************************************************)
\* Significant digits of the decimal context.  The program sets 28
\* (getcontext().prec); the model keeps the same rounding rule on fewer
\* digits, TLC's integers being 32 bits wide.
ModelPrec == 3
\* Fractional digits of fmt.  The program's default is 8.
ModelDecimals == 2
\* How many times the clock advances.
MaxTicks == 2
\* How many convert requests are started, one after the other.
MaxRequests == 3
\* How many convert requests are started when requests overlap.
MaxOverlapping == 2
\* How many times the clock advances when requests overlap.
MaxOverlappingTicks == 1
\* The wall clock (time.time()) when the process starts.
StartTime == 100000

(***************************************************************************)
(* Decimal arithmetic (decimal.Decimal under getcontext().prec, rounding   *)
(* ROUND_HALF_EVEN).  A decimal is [c, e], the number c * 10^e, kept in    *)
(* canonical form (c not divisible by 10; zero is [0, 0]); Decimal         *)
(* compares by numerical value, as equality of canonical forms does.       *)
(* DecErr is the value of an operation that raises (InvalidOperation,      *)
(* DivisionByZero).  Only non-negative decimals occur.                     *)
(***************************************************************************)
RECURSIVE Pow10(_)
Pow10(k) == IF k <= 0 THEN 1 ELSE 10 * Pow10(k - 1)

RECURSIVE Digits(_)
Digits(n) == IF n < 10 THEN 1 ELSE 1 + Digits(n \div 10)

DecErr == [c |-> -1, e |-> 0]

RECURSIVE Norm(_, _)
Norm(c, e) ==
    IF c = 0 THEN [c |-> 0, e |-> 0]
    ELSE IF c % 10 = 0 THEN Norm(c \div 10, e + 1)
    ELSE [c |-> c, e |-> e]

Dec(c, e) == Norm(c, e)

\* q with the remainder r of a division by d (r = 0 .. d-1) dropped,
\* rounded half to even.
HalfEven(q, r, d) ==
    IF 2 * r > d \/ (2 * r = d /\ q % 2 = 1) THEN q + 1 ELSE q

\* c * 10^e rounded to prec significant digits.
RoundTo(c, e, prec) ==
    IF Digits(c) <= prec THEN Norm(c, e)
    ELSE LET drop == Digits(c) - prec
             d    == Pow10(drop)
         IN  Norm(HalfEven(c \div d, c % d, d), e + drop)

DecMul(a, b) ==
    IF a = DecErr \/ b = DecErr THEN DecErr
    ELSE RoundTo(a.c * b.c, a.e + b.e, ModelPrec)

\* a / b: 0 / 0 raises InvalidOperation, x / 0 raises DivisionByZero.
\* The numerator is scaled so that the integer quotient q has ModelPrec or
\* ModelPrec + 1 digits; the digits dropped from q and the remainder of
\* the integer division decide the rounding.
DecDiv(a, b) ==
    IF a = DecErr \/ b = DecErr \/ b.c = 0 THEN DecErr
    ELSE IF a.c = 0 THEN Norm(0, 0)
    ELSE LET k   == ModelPrec + Digits(b.c) - Digits(a.c)
             num == a.c * Pow10(k)
             q   == num \div b.c
             r   == num % b.c
         IN  IF Digits(q) <= ModelPrec
             THEN Norm(HalfEven(q, r, b.c), a.e - b.e - k)
             ELSE LET q1 == q \div 10
                      d  == q % 10
                      up == d > 5 \/ (d = 5 /\ r > 0)
                              \/ (d = 5 /\ r = 0 /\ q1 % 2 = 1)
                  IN  Norm(IF up THEN q1 + 1 ELSE q1, a.e - b.e - k + 1)

\* bool(Decimal): zero is falsy.
DecTruthy(a) == a.c # 0

\* fmt(n, decimals): n.quantize(10^-decimals) printed in 'f' notation.  The
\* string is determined by the quantized number, which the model gives as
\* the count of units of 10^-decimals.  (quantize raises InvalidOperation
\* where the quantized coefficient has more digits than the context
\* precision, which takes numbers of 10^20 and more; the amounts, prices
\* and rates of this model stay far below.)
fmt(n) ==
    IF n = DecErr THEN -1
    ELSE IF n.e >= -ModelDecimals THEN n.c * Pow10(n.e + ModelDecimals)
    ELSE LET d == Pow10(-n.e - ModelDecimals)
         IN  HalfEven(n.c \div d, n.c % d, d)

(***************************************************************************)
(* Python values: None, dict truthiness, dict.get.                         *)
(***************************************************************************)
None == [none |-> TRUE]

EmptyMap == << >>

\* bool(d) of a dict-or-None: None and the empty dict are falsy.
Truthy(d) == d # None /\ DOMAIN d # {}

\* d.get(k)
Get(d, k) == IF k \in DOMAIN d THEN d[k] ELSE None

\* "not v" of a Decimal-or-None.
Falsy(v) == v = None \/ ~DecTruthy(v)

(***************************************************************************)
(* Time-to-live of each source, in seconds.                                *)
(***************************************************************************)
ECB_TTL == 60 * 60
BINANCE_TTL == 10
YAHOO_TTL == 10

(***************************************************************************)
(* The environment: what the callers send and what the upstreams answer.   *)
(***************************************************************************)
\* The requests callers send: one of each quadrant, and a second crypto
\* to fiat pair.
Request(from, to, amount) == [from |-> from, to |-> to, amount |-> amount]

Requests ==
    { Request(pr[1], pr[2], Dec(2, 0)) :
        pr \in {<<"BTC", "ETH">>, <<"BTC", "GBP">>, <<"GBP", "BTC">>,
                <<"USD", "GBP">>, <<"BTC", "EUR">>} }

\* The requests sent when requests overlap.
OverlappingRequests ==
    { Request(pr[1], pr[2], Dec(2, 0)) :
        pr \in {<<"BTC", "GBP">>, <<"USD", "GBP">>} }

\* Documents the ECB feed can parse to: the usual basket, and the basket
\* of a well-formed document that holds no currency element, which is
\* the EUR entry of line 60 alone.
BasketFull  == ("EUR" :> Dec(1, 0)) @@ ("USD" :> Dec(108, -2)) @@ ("GBP" :> Dec(86, -2))
BasketNoUsd == "EUR" :> Dec(1, 0)
Baskets == {BasketFull, BasketNoUsd}

\* Bulk ticker snapshots.  Binance lists pairs quoted in fiat-named assets
\* (GBPUSDT) and reports a price of 0 for a pair that does not trade.
TickerA == ("BTCUSDT" :> Dec(60, 0)) @@ ("ETHUSDT" :> Dec(3, 0))
             @@ ("GBPUSDT" :> Dec(125, -2)) @@ ("BTCETH" :> Dec(20, 0))
             @@ ("ETHBTC" :> Dec(0, 0))
TickerB == ("BTCUSDT" :> Dec(61, 0)) @@ ("ETHUSDT" :> Dec(0, 0))
Tickers == {TickerA, TickerB}

\* regularMarketPrice of a pair symbol when Yahoo quotes it.
YahooQuote(pair) ==
    CASE pair = "USDGBP=X" -> Dec(8, -1)
      [] pair = "GBPUSD=X" -> Dec(125, -2)
      [] OTHER             -> Dec(1, 0)
\* The quotes of a pair: that of USD/GBP moves between two fetches.
YahooQuotes(pair) ==
    {YahooQuote(pair)} \cup (IF pair = "USDGBP=X" THEN {Dec(75, -2)} ELSE {})

\* An upstream answer: an exception anywhere in the try block ("error"),
\* a non-200 status ("status", Binance only checks it), or a parsed body.
Failed(kind) == [kind |-> kind, body |-> None]
Parsed(body) == [kind |-> "ok", body |-> body]

EcbResponses == {Failed("error")} \cup {Parsed(b) : b \in Baskets}
BinanceResponses == {Failed("error"), Failed("status")} \cup {Parsed(t) : t \in Tickers}
YahooResponses(pair) == {Failed("error")} \cup {Parsed(q) : q \in YahooQuotes(pair)}

\* Seconds the clock can advance by in one step.
TickSteps == {5, 3600}

Procs == {1, 2}

(***************************************************************************)
(* The router's pure part (convert, lines 136-216).                        *)
(***************************************************************************)
\* The JSON body of a successful conversion; the numeric fields go
\* through fmt.
Success(amount, rate, converted, via) ==
    [status |-> 200, detail |-> "", amount |-> fmt(amount), rate |-> fmt(rate),
     converted |-> fmt(converted), via |-> via]

\* raise HTTPException(status_code, detail)
HttpError(status, detail) ==
    [status |-> status, detail |-> detail, amount |-> -1, rate |-> -1,
     converted |-> -1, via |-> ""]

\* An exception that is no HTTPException (KeyError, decimal.InvalidOperation)
\* leaves the handler; the framework answers 500.
Unhandled(exc) == HttpError(500, exc)

NoResult == HttpError(0, "")

\* "code in ecb_rates" (lines 137, 158, 185, 201): the router's only test
\* of a code being fiat.
in_basket(code, ecb_rates) == code \in DOMAIN ecb_rates

\* What the handler does next: return (or raise) r, or call
\* get_yahoo_rate(base, quote).
Return(r) == [op |-> "return", result |-> r, base |-> "", quote |-> ""]
CallYahoo(base, quote) == [op |-> "yahoo", result |-> NoResult, base |-> base, quote |-> quote]

\* A variant of crypto_to_crypto that takes the direct symbol wherever the
\* mapping lists it.
crypto_to_crypto_listed(from, to, amount, prices) ==
    LET direct_price == Get(prices, from \o to)
        from_usd == Get(prices, from \o "USDT")
        to_usd == Get(prices, to \o "USDT")
        usd_value == DecMul(amount, from_usd)
    IN  IF direct_price # None
        THEN Success(amount, direct_price, DecMul(amount, direct_price), "direct")
        ELSE IF Falsy(from_usd) \/ Falsy(to_usd)
        THEN HttpError(400, "Unsupported crypto pair")
        ELSE Success(amount, DecDiv(from_usd, to_usd), DecDiv(usd_value, to_usd), "USDT")

\* Crypto -> Crypto, lines 138-155.
crypto_to_crypto(from, to, amount, prices) ==
    LET direct_price == Get(prices, from \o to)
        from_usd == Get(prices, from \o "USDT")
        to_usd == Get(prices, to \o "USDT")
        usd_value == DecMul(amount, from_usd)
    IN  IF ~Falsy(direct_price)
        THEN Success(amount, direct_price, DecMul(amount, direct_price), "direct")
        ELSE IF Falsy(from_usd) \/ Falsy(to_usd)
        THEN HttpError(400, "Unsupported crypto pair")
        ELSE Success(amount, DecDiv(from_usd, to_usd), DecDiv(usd_value, to_usd), "USDT")

\* The handler from line 136 up to its first return, raise or call of
\* get_yahoo_rate.
convert_route(from, to, amount, ecb_rates, prices) ==
    IF ~in_basket(from, ecb_rates) /\ ~in_basket(to, ecb_rates)
    THEN Return(crypto_to_crypto(from, to, amount, prices))
    ELSE IF ~in_basket(from, ecb_rates) /\ in_basket(to, ecb_rates)
    THEN LET crypto_price_usd == Get(prices, from \o "USDT")
         IN  IF Falsy(crypto_price_usd)
             THEN Return(HttpError(400, "Unsupported crypto"))
             ELSE IF to = "USD"
             THEN Return(Success(amount, crypto_price_usd,
                                 DecMul(amount, crypto_price_usd), "binance"))
             ELSE CallYahoo("USD", to)
    ELSE IF in_basket(from, ecb_rates) /\ ~in_basket(to, ecb_rates)
    THEN IF Falsy(Get(prices, to \o "USDT"))
         THEN Return(HttpError(400, "Unsupported target crypto"))
         ELSE CallYahoo(from, "USD")
    ELSE CallYahoo(from, to)

\* Crypto -> Fiat after get_yahoo_rate returned, lines 170-182.
crypto_to_fiat(from, to, amount, ecb_rates, prices, yahoo_rate) ==
    LET crypto_price_usd == prices[from \o "USDT"]
        usd_amount == DecMul(amount, crypto_price_usd)
    IN  IF ~Falsy(yahoo_rate)
        THEN Success(amount, DecMul(crypto_price_usd, yahoo_rate),
                     DecMul(usd_amount, yahoo_rate), "binance+yahoo")
        ELSE IF "USD" \notin DOMAIN ecb_rates
        THEN Unhandled("KeyError")
        ELSE LET usd_to_eur == DecDiv(Dec(1, 0), ecb_rates["USD"])
                 eur_amount == DecMul(usd_amount, usd_to_eur)
                 converted == DecMul(eur_amount, ecb_rates[to])
                 rate == DecMul(DecMul(crypto_price_usd, usd_to_eur), ecb_rates[to])
             IN  Success(amount, rate, converted, "binance+ecb")

\* A variant of fiat_to_crypto that crosses the basket the wrong way.
fiat_to_crypto_inverse(from, to, amount, ecb_rates, prices, yahoo_rate) ==
    LET crypto_price_usd == prices[to \o "USDT"]
    IN  IF Falsy(yahoo_rate) /\ "USD" \notin DOMAIN ecb_rates
        THEN Unhandled("KeyError")
        ELSE LET usd_amount ==
                     IF ~Falsy(yahoo_rate) THEN DecMul(amount, yahoo_rate)
                     ELSE DecDiv(DecMul(amount, ecb_rates[from]), ecb_rates["USD"])
                 converted == DecDiv(usd_amount, crypto_price_usd)
                 rate == DecDiv(usd_amount, DecMul(amount, crypto_price_usd))
             IN  IF rate = DecErr
                 THEN Unhandled("InvalidOperation")
                 ELSE Success(amount, rate, converted,
                              IF ~Falsy(yahoo_rate) THEN "yahoo+binance" ELSE "ecb+binance")

\* Fiat -> Crypto after get_yahoo_rate returned, lines 192-198.
fiat_to_crypto(from, to, amount, ecb_rates, prices, yahoo_rate) ==
    LET crypto_price_usd == prices[to \o "USDT"]
    IN  IF Falsy(yahoo_rate) /\ "USD" \notin DOMAIN ecb_rates
        THEN Unhandled("KeyError")
        ELSE LET usd_amount ==
                     IF ~Falsy(yahoo_rate) THEN DecMul(amount, yahoo_rate)
                     ELSE DecMul(DecDiv(amount, ecb_rates[from]), ecb_rates["USD"])
                 converted == DecDiv(usd_amount, crypto_price_usd)
                 rate == DecDiv(usd_amount, DecMul(amount, crypto_price_usd))
             IN  IF rate = DecErr
                 THEN Unhandled("InvalidOperation")
                 ELSE Success(amount, rate, converted,
                              IF ~Falsy(yahoo_rate) THEN "yahoo+binance" ELSE "ecb+binance")

\* A variant of fiat_to_fiat that converts one unit whatever the amount.
fiat_to_fiat_unit(from, to, amount, ecb_rates, yahoo_rate) ==
    IF ~Falsy(yahoo_rate)
    THEN Success(amount, yahoo_rate, yahoo_rate, "yahoo")
    ELSE LET eur_amount == DecDiv(Dec(1, 0), ecb_rates[from])
             converted == DecMul(eur_amount, ecb_rates[to])
             rate == DecDiv(ecb_rates[to], ecb_rates[from])
         IN  Success(amount, rate, converted, "ecb")

\* A variant of fiat_to_fiat that takes whatever rate get_yahoo_rate
\* returned.
fiat_to_fiat_returned(from, to, amount, ecb_rates, yahoo_rate) ==
    IF yahoo_rate # None
    THEN Success(amount, yahoo_rate, DecMul(amount, yahoo_rate), "yahoo")
    ELSE LET eur_amount == DecDiv(amount, ecb_rates[from])
             converted == DecMul(eur_amount, ecb_rates[to])
             rate == DecDiv(ecb_rates[to], ecb_rates[from])
         IN  Success(amount, rate, converted, "ecb")

\* Fiat -> Fiat after get_yahoo_rate returned, lines 203-214.
fiat_to_fiat(from, to, amount, ecb_rates, yahoo_rate) ==
    IF ~Falsy(yahoo_rate)
    THEN Success(amount, yahoo_rate, DecMul(amount, yahoo_rate), "yahoo")
    ELSE LET eur_amount == DecDiv(amount, ecb_rates[from])
             converted == DecMul(eur_amount, ecb_rates[to])
             rate == DecDiv(ecb_rates[to], ecb_rates[from])
         IN  Success(amount, rate, converted, "ecb")

\* The handler from the return of get_yahoo_rate to its end.
convert_resume(from, to, amount, ecb_rates, prices, yahoo_rate) ==
    IF ~in_basket(from, ecb_rates) /\ in_basket(to, ecb_rates)
    THEN crypto_to_fiat(from, to, amount, ecb_rates, prices, yahoo_rate)
    ELSE IF in_basket(from, ecb_rates) /\ ~in_basket(to, ecb_rates)
    THEN fiat_to_crypto(from, to, amount, ecb_rates, prices, yahoo_rate)
    ELSE fiat_to_fiat(from, to, amount, ecb_rates, yahoo_rate)

(***************************************************************************)
(* State.                                                                  *)
(***************************************************************************)
VARIABLES
    CACHE,           \* the module-level CACHE dict (lines 32-36)
    clock,           \* time.time()
    ticks,           \* how many times the clock advanced
    started,         \* how many requests were started
    pc,              \* where each request is in the handler
    req,             \* each request's from_currency, to_currency, amount
    now,             \* the local "now" of the provider call that is waiting
    ecb_rates,       \* convert's local ecb_rates (line 133)
    binance_prices,  \* convert's local binance_prices (line 134)
    pair,            \* get_yahoo_rate's local pair (line 78)
    yahoo_rate,      \* convert's local yahoo_rate (lines 169, 191, 202)
    result,          \* what the request ended with
    rd,              \* history: the provider calls the request made
    prev,            \* history: the fetches that failed in the request before
    fetchedAt        \* history: the "now" of the call that fetched each cached value

vars == <<CACHE, clock, ticks, started, pc, req, now, ecb_rates,
          binance_prices, pair, yahoo_rate, result, rd, prev, fetchedAt>>

\* History of one provider call: whether it was made, whether the cache
\* test passed (no upstream request), what the call found cached ("none":
\* no value was ever fetched, "fresh": one fetched less than the TTL ago,
\* "expired": one fetched the TTL ago or earlier), and the upstream's
\* answer.
NoCall == [called |-> FALSE, hit |-> FALSE, found |-> "none", resp |-> "none"]
Call(hit, found) == [called |-> TRUE, hit |-> hit, found |-> found, resp |-> "none"]
NoCalls == [ecb |-> NoCall, binance |-> NoCall, yahoo |-> NoCall]

Found(at, ttl) ==
    IF at < 0 THEN "none" ELSE IF clock - at < ttl THEN "fresh" ELSE "expired"
YahooFound(key) ==
    IF key \in DOMAIN fetchedAt.yahoo THEN Found(fetchedAt.yahoo[key], YAHOO_TTL)
    ELSE "none"

Answer(resp) == IF resp.kind = "ok" THEN "ok" ELSE "fail"

\* The fetches of a request that failed: that of the ticker, and that of
\* a pair (its key, "" if none did).
NoFailures == [binance |-> FALSE, yahoo |-> ""]
Failures(calls, key) ==
    [binance |-> calls.binance.resp = "fail",
     yahoo |-> IF calls.yahoo.resp = "fail" THEN key ELSE ""]

Init ==
    /\ CACHE = [ecb     |-> [data |-> None, timestamp |-> 0],
                binance |-> [data |-> None, timestamp |-> 0],
                yahoo   |-> [data |-> EmptyMap, timestamp |-> 0]]
    /\ clock = StartTime
    /\ ticks = 0
    /\ started = 0
    /\ pc = [p \in Procs |-> "idle"]
    /\ req = [p \in Procs |-> Request("", "", Dec(0, 0))]
    /\ now = [p \in Procs |-> 0]
    /\ ecb_rates = [p \in Procs |-> None]
    /\ binance_prices = [p \in Procs |-> None]
    /\ pair = [p \in Procs |-> ""]
    /\ yahoo_rate = [p \in Procs |-> None]
    /\ result = [p \in Procs |-> NoResult]
    /\ rd = [p \in Procs |-> NoCalls]
    /\ prev = [p \in Procs |-> NoFailures]
    /\ fetchedAt = [ecb |-> -1, binance |-> -1, yahoo |-> EmptyMap]

(***************************************************************************)
(* The cache tests of the three providers.                                 *)
(***************************************************************************)
\* line 52
ecb_fresh(cache, t) ==
    Truthy(cache["ecb"].data) /\ t - cache["ecb"].timestamp < ECB_TTL

\* line 105
binance_fresh(cache, t) ==
    Truthy(cache["binance"].data) /\ t - cache["binance"].timestamp < BINANCE_TTL

\* line 81
yahoo_fresh(cache, key, t) ==
    key \in DOMAIN cache["yahoo"].data /\ t - cache["yahoo"].timestamp < YAHOO_TTL

\* line 78
pair_key(base, quote) == base \o quote \o "=X"

\* Variants of ecb_except: one that raises whatever is cached, one that
\* returns an empty basket where nothing is cached.
ecb_except_fatal(cache) == [raise |-> TRUE, value |-> None]
ecb_except_empty(cache) ==
    IF Truthy(cache["ecb"].data)
    THEN [raise |-> FALSE, value |-> cache["ecb"].data]
    ELSE [raise |-> FALSE, value |-> EmptyMap]

\* What get_ecb_rates does when the fetch or the parse raised (lines
\* 66-70): the cached basket if there is one, else the 503.
ecb_except(cache) ==
    IF Truthy(cache["ecb"].data)
    THEN [raise |-> FALSE, value |-> cache["ecb"].data]
    ELSE [raise |-> TRUE, value |-> None]

\* A variant of binance_except that serves the cached snapshot the way
\* get_ecb_rates does.
binance_except_stale(cache) ==
    IF Truthy(cache["binance"].data) THEN cache["binance"].data ELSE EmptyMap

\* What get_binance_prices returns when the status is not 200 or the
\* fetch raised (lines 110-111, 115-117).
binance_except(cache) == EmptyMap

\* What get_yahoo_rate returns when the fetch raised (lines 93-95).
yahoo_except(cache) == None

(***************************************************************************)
(* The handler, from one point to its next upstream request or its end.    *)
(* Where a request stands afterwards: its pc, its locals, its result and   *)
(* the calls it made on the way.                                           *)
(***************************************************************************)
Stand(at, prices, key, rate, res, calls) ==
    [pc |-> at, prices |-> prices, pair |-> key, yahoo_rate |-> rate,
     result |-> res, calls |-> calls]

\* A variant of FromRouter that routes by the basket the cache holds.
FromRouter_cached(r, ecb, prices, calls) ==
    LET cached == CACHE["ecb"].data
        step == convert_route(r.from, r.to, r.amount, cached, prices)
        key == pair_key(step.base, step.quote)
        hit == yahoo_fresh(CACHE, key, clock)
        made == [calls EXCEPT !.yahoo = Call(hit, YahooFound(key))]
    IN  IF step.op = "return"
        THEN Stand("done", prices, "", None, step.result, calls)
        ELSE IF hit
        THEN Stand("done", prices, key, CACHE["yahoo"].data[key],
                   convert_resume(r.from, r.to, r.amount, cached, prices,
                                  CACHE["yahoo"].data[key]),
                   made)
        ELSE Stand("yahoo_wait", prices, key, None, NoResult, made)

\* From line 136, the ticker being known, through the cache test of
\* get_yahoo_rate (lines 77-82) to the end of the handler.
FromRouter(r, ecb, prices, calls) ==
    LET step == convert_route(r.from, r.to, r.amount, ecb, prices)
        key == pair_key(step.base, step.quote)
        hit == yahoo_fresh(CACHE, key, clock)
        made == [calls EXCEPT !.yahoo = Call(hit, YahooFound(key))]
    IN  IF step.op = "return"
        THEN Stand("done", prices, "", None, step.result, calls)
        ELSE IF hit
        THEN Stand("done", prices, key, CACHE["yahoo"].data[key],
                   convert_resume(r.from, r.to, r.amount, ecb, prices,
                                  CACHE["yahoo"].data[key]),
                   made)
        ELSE Stand("yahoo_wait", prices, key, None, NoResult, made)

\* From line 134, the basket being known, through the cache test of
\* get_binance_prices (lines 104-106).
FromBinance(r, ecb, calls) ==
    LET hit == binance_fresh(CACHE, clock)
        made == [calls EXCEPT !.binance = Call(hit, Found(fetchedAt.binance, BINANCE_TTL))]
    IN  IF hit
        THEN FromRouter(r, ecb, CACHE["binance"].data, made)
        ELSE Stand("binance_wait", None, "", None, NoResult, made)

\* The request p stands at stand.
Stands(p, stand) ==
    \E s \in {stand} :
        /\ pc' = [pc EXCEPT ![p] = s.pc]
        /\ binance_prices' = [binance_prices EXCEPT ![p] = s.prices]
        /\ pair' = [pair EXCEPT ![p] = s.pair]
        /\ yahoo_rate' = [yahoo_rate EXCEPT ![p] = s.yahoo_rate]
        /\ result' = [result EXCEPT ![p] = s.result]
        /\ rd' = [rd EXCEPT ![p] = s.calls]
        /\ now' = [now EXCEPT ![p] = IF s.pc = "done" THEN 0 ELSE clock]

(***************************************************************************)
(* The steps of a request.                                                 *)
(***************************************************************************)
\* A request arrives: lines 129-133 and the cache test of get_ecb_rates
\* (lines 51-53), which sends the request to the ECB or returns the
\* cached basket, the handler going on with it.
convert_start(p, r) ==
    LET hit == ecb_fresh(CACHE, clock)
        made == [NoCalls EXCEPT !.ecb = Call(hit, Found(fetchedAt.ecb, ECB_TTL))]
    IN  /\ pc[p] \in {"idle", "done"}
        /\ started' = started + 1
        /\ req' = [req EXCEPT ![p] = r]
        /\ prev' = [prev EXCEPT ![p] = Failures(rd[p], pair[p])]
        /\ IF hit
           THEN /\ ecb_rates' = [ecb_rates EXCEPT ![p] = CACHE["ecb"].data]
                /\ Stands(p, FromBinance(r, CACHE["ecb"].data, made))
           ELSE /\ ecb_rates' = [ecb_rates EXCEPT ![p] = None]
                /\ Stands(p, Stand("ecb_wait", None, "", None, NoResult, made))
        /\ UNCHANGED <<CACHE, clock, ticks, fetchedAt>>

\* A variant of get_ecb_rates_response that keeps a basket another request
\* stored while this one was waiting.
get_ecb_rates_response_first(p, resp) ==
    LET made == [rd[p] EXCEPT !.ecb.resp = Answer(resp)]
        rates == IF resp.kind = "ok" THEN resp.body ELSE ecb_except(CACHE).value
    IN  /\ pc[p] = "ecb_wait"
        /\ IF resp.kind = "ok" /\ ~ecb_fresh(CACHE, clock)
           THEN /\ CACHE' = [CACHE EXCEPT !["ecb"] =
                                [data |-> resp.body, timestamp |-> now[p]]]
                /\ fetchedAt' = [fetchedAt EXCEPT !.ecb = now[p]]
           ELSE UNCHANGED <<CACHE, fetchedAt>>
        /\ IF resp.kind # "ok" /\ ecb_except(CACHE).raise
           THEN /\ Stands(p, Stand("done", None, "", None,
                                   HttpError(503, "ECB service unavailable"), made))
                /\ UNCHANGED ecb_rates
           ELSE /\ ecb_rates' = [ecb_rates EXCEPT ![p] = rates]
                /\ Stands(p, FromBinance(req[p], rates, made))
        /\ UNCHANGED <<clock, ticks, started, req, prev>>

\* The ECB answers (lines 56-70), the handler going on with the basket
\* unless get_ecb_rates raises.
get_ecb_rates_response(p, resp) ==
    LET made == [rd[p] EXCEPT !.ecb.resp = Answer(resp)]
        rates == IF resp.kind = "ok" THEN resp.body ELSE ecb_except(CACHE).value
    IN  /\ pc[p] = "ecb_wait"
        /\ IF resp.kind = "ok"
           THEN /\ CACHE' = [CACHE EXCEPT !["ecb"] =
                                [data |-> resp.body, timestamp |-> now[p]]]
                /\ fetchedAt' = [fetchedAt EXCEPT !.ecb = now[p]]
           ELSE UNCHANGED <<CACHE, fetchedAt>>
        /\ IF resp.kind # "ok" /\ ecb_except(CACHE).raise
           THEN /\ Stands(p, Stand("done", None, "", None,
                                   HttpError(503, "ECB service unavailable"), made))
                /\ UNCHANGED ecb_rates
           ELSE /\ ecb_rates' = [ecb_rates EXCEPT ![p] = rates]
                /\ Stands(p, FromBinance(req[p], rates, made))
        /\ UNCHANGED <<clock, ticks, started, req, prev>>

\* A variant of get_binance_prices_response that remembers a failure: it
\* stamps the cache, so that the snapshot it holds counts as fetched now.
get_binance_prices_response_remember(p, resp) ==
    LET made == [rd[p] EXCEPT !.binance.resp = Answer(resp)]
        prices == IF resp.kind = "ok" THEN resp.body ELSE binance_except(CACHE)
    IN  /\ pc[p] = "binance_wait"
        /\ IF resp.kind = "ok"
           THEN /\ CACHE' = [CACHE EXCEPT !["binance"] =
                                [data |-> resp.body, timestamp |-> now[p]]]
                /\ fetchedAt' = [fetchedAt EXCEPT !.binance = now[p]]
           ELSE /\ CACHE' = [CACHE EXCEPT !["binance"].timestamp = now[p]]
                /\ UNCHANGED fetchedAt
        /\ Stands(p, FromRouter(req[p], ecb_rates[p], prices, made))
        /\ UNCHANGED <<clock, ticks, started, req, ecb_rates, prev>>

\* Binance answers (lines 109-117), the handler going on with the ticker.
get_binance_prices_response(p, resp) ==
    LET made == [rd[p] EXCEPT !.binance.resp = Answer(resp)]
        prices == IF resp.kind = "ok" THEN resp.body ELSE binance_except(CACHE)
    IN  /\ pc[p] = "binance_wait"
        /\ IF resp.kind = "ok"
           THEN /\ CACHE' = [CACHE EXCEPT !["binance"] =
                                [data |-> resp.body, timestamp |-> now[p]]]
                /\ fetchedAt' = [fetchedAt EXCEPT !.binance = now[p]]
           ELSE UNCHANGED <<CACHE, fetchedAt>>
        /\ Stands(p, FromRouter(req[p], ecb_rates[p], prices, made))
        /\ UNCHANGED <<clock, ticks, started, req, ecb_rates, prev>>

\* A variant of get_yahoo_rate_response that asks Yahoo again when the
\* fetch failed.
get_yahoo_rate_response_retry(p, resp) ==
    LET made == [rd[p] EXCEPT !.yahoo.resp = Answer(resp)]
        rate == IF resp.kind = "ok" THEN resp.body ELSE yahoo_except(CACHE)
    IN  /\ pc[p] = "yahoo_wait"
        /\ IF resp.kind = "ok"
           THEN /\ CACHE' = [CACHE EXCEPT !["yahoo"] =
                                [data |-> (pair[p] :> resp.body) @@ CACHE["yahoo"].data,
                                 timestamp |-> now[p]]]
                /\ fetchedAt' = [fetchedAt EXCEPT !.yahoo = (pair[p] :> now[p]) @@ @]
                /\ Stands(p, Stand("done", binance_prices[p], pair[p], rate,
                                   convert_resume(req[p].from, req[p].to, req[p].amount,
                                                  ecb_rates[p], binance_prices[p], rate),
                                   made))
           ELSE /\ UNCHANGED <<CACHE, fetchedAt>>
                /\ Stands(p, Stand("yahoo_wait", binance_prices[p], pair[p], None,
                                   NoResult, made))
        /\ UNCHANGED <<clock, ticks, started, req, ecb_rates, prev>>

\* A variant of get_yahoo_rate_response that replaces the mapping of the
\* pairs the way the other two providers replace theirs.
get_yahoo_rate_response_replace(p, resp) ==
    LET made == [rd[p] EXCEPT !.yahoo.resp = Answer(resp)]
        rate == IF resp.kind = "ok" THEN resp.body ELSE yahoo_except(CACHE)
    IN  /\ pc[p] = "yahoo_wait"
        /\ IF resp.kind = "ok"
           THEN /\ CACHE' = [CACHE EXCEPT !["yahoo"] =
                                [data |-> (pair[p] :> resp.body), timestamp |-> now[p]]]
                /\ fetchedAt' = [fetchedAt EXCEPT !.yahoo = (pair[p] :> now[p]) @@ @]
           ELSE UNCHANGED <<CACHE, fetchedAt>>
        /\ Stands(p, Stand("done", binance_prices[p], pair[p], rate,
                           convert_resume(req[p].from, req[p].to, req[p].amount,
                                          ecb_rates[p], binance_prices[p], rate),
                           made))
        /\ UNCHANGED <<clock, ticks, started, req, ecb_rates, prev>>

\* Yahoo answers (lines 86-95) and the handler runs to its end.
get_yahoo_rate_response(p, resp) ==
    LET made == [rd[p] EXCEPT !.yahoo.resp = Answer(resp)]
        rate == IF resp.kind = "ok" THEN resp.body ELSE yahoo_except(CACHE)
    IN  /\ pc[p] = "yahoo_wait"
        /\ IF resp.kind = "ok"
           THEN /\ CACHE' = [CACHE EXCEPT !["yahoo"] =
                                [data |-> (pair[p] :> resp.body) @@ CACHE["yahoo"].data,
                                 timestamp |-> now[p]]]
                /\ fetchedAt' = [fetchedAt EXCEPT !.yahoo = (pair[p] :> now[p]) @@ @]
           ELSE UNCHANGED <<CACHE, fetchedAt>>
        /\ Stands(p, Stand("done", binance_prices[p], pair[p], rate,
                           convert_resume(req[p].from, req[p].to, req[p].amount,
                                          ecb_rates[p], binance_prices[p], rate),
                           made))
        /\ UNCHANGED <<clock, ticks, started, req, ecb_rates, prev>>

\* Time passes.  It starts to count when the first request arrives: the
\* cache is empty until then.
Tick(d) ==
    /\ started > 0
    /\ ticks < MaxTicks
    /\ ticks' = ticks + 1
    /\ clock' = clock + d
    /\ UNCHANGED <<CACHE, started, pc, req, now, ecb_rates, binance_prices,
                   pair, yahoo_rate, result, rd, prev, fetchedAt>>

\* Requests served one at a time, each within a tick of the clock.
Next ==
    \/ \E r \in Requests : started < MaxRequests /\ convert_start(1, r)
    \/ \E resp \in EcbResponses : get_ecb_rates_response(1, resp)
    \/ \E resp \in BinanceResponses : get_binance_prices_response(1, resp)
    \/ \E resp \in YahooResponses(pair[1]) : get_yahoo_rate_response(1, resp)
    \/ \E d \in TickSteps : pc[1] \in {"idle", "done"} /\ Tick(d)

Spec == Init /\ [][Next]_vars

\* Requests that overlap (the framework runs the handler of each request
\* on a worker thread), within seconds of each other.
NextConc ==
    \/ \E p \in Procs, r \in OverlappingRequests :
          started < MaxOverlapping /\ convert_start(p, r)
    \/ \E p \in Procs, resp \in EcbResponses : get_ecb_rates_response(p, resp)
    \/ \E p \in Procs, resp \in BinanceResponses : get_binance_prices_response(p, resp)
    \/ \E p \in Procs :
          \E resp \in YahooResponses(pair[p]) : get_yahoo_rate_response(p, resp)
    \/ ticks < MaxOverlappingTicks /\ Tick(5)

SpecConc == Init /\ [][NextConc]_vars

(***************************************************************************)
(* The router alone, as a function of what the providers returned: the     *)
(* request, the basket and the ticker are drawn, the fiat pair provider    *)
(* returns nothing, a rate of 0 or the pair's quote.                       *)
(***************************************************************************)
Codes == {"EUR", "USD", "GBP", "BTC", "ETH"}
Amounts == {Dec(0, 0), Dec(2, 0)}
RouterRequests == {Request(from, to, amount) : from \in Codes, to \in Codes, amount \in Amounts}
RouterTickers == {TickerA, TickerB, EmptyMap}
YahooRates(key) == {None, Dec(0, 0), YahooQuote(key)}

RouterInit ==
    /\ CACHE = [ecb     |-> [data |-> None, timestamp |-> 0],
                binance |-> [data |-> None, timestamp |-> 0],
                yahoo   |-> [data |-> EmptyMap, timestamp |-> 0]]
    /\ clock = StartTime
    /\ ticks = 0
    /\ started = 1
    /\ pc = [p \in Procs |-> IF p = 1 THEN "route" ELSE "idle"]
    /\ \E r \in RouterRequests :
           req = [p \in Procs |-> IF p = 1 THEN r ELSE Request("", "", Dec(0, 0))]
    /\ now = [p \in Procs |-> 0]
    /\ \E b \in Baskets : ecb_rates = [p \in Procs |-> IF p = 1 THEN b ELSE None]
    /\ \E t \in RouterTickers :
           binance_prices = [p \in Procs |-> IF p = 1 THEN t ELSE None]
    /\ pair = [p \in Procs |-> ""]
    /\ yahoo_rate = [p \in Procs |-> None]
    /\ result = [p \in Procs |-> NoResult]
    /\ rd = [p \in Procs |-> NoCalls]
    /\ prev = [p \in Procs |-> NoFailures]
    /\ fetchedAt = [ecb |-> -1, binance |-> -1, yahoo |-> EmptyMap]

\* Lines 136-216, get_yahoo_rate returning rate where it is called.
convert_router(p, rate) ==
    LET r == req[p]
        step == convert_route(r.from, r.to, r.amount, ecb_rates[p], binance_prices[p])
    IN  /\ pc[p] = "route"
        /\ pc' = [pc EXCEPT ![p] = "done"]
        /\ IF step.op = "return"
           THEN /\ result' = [result EXCEPT ![p] = step.result]
                /\ UNCHANGED <<pair, yahoo_rate, rd>>
           ELSE /\ pair' = [pair EXCEPT ![p] = pair_key(step.base, step.quote)]
                /\ yahoo_rate' = [yahoo_rate EXCEPT ![p] = rate]
                /\ rd' = [rd EXCEPT ![p].yahoo = Call(FALSE, "none")]
                /\ result' = [result EXCEPT ![p] =
                                 convert_resume(r.from, r.to, r.amount, ecb_rates[p],
                                                binance_prices[p], rate)]
        /\ UNCHANGED <<CACHE, clock, ticks, started, req, now, ecb_rates,
                       binance_prices, prev, fetchedAt>>

RouterNext ==
    \E key \in {pair_key(b, q) : b \in Codes, q \in Codes} :
        \E rate \in YahooRates(key) :
            convert_router(1, rate) /\ pair'[1] \in {"", key}

SpecRouter == RouterInit /\ [][RouterNext]_vars

(***************************************************************************)
(* A round trip: a conversion, and the conversion of its result back, the  *)
(* second request being served the basket, the ticker and the pair rates   *)
(* the first was served.                                                   *)
(***************************************************************************)
\* Tickers that list the direct symbol both ways, with prices that are
\* and are not each other's reciprocal.
TickerC == ("BTCUSDT" :> Dec(60, 0)) @@ ("ETHUSDT" :> Dec(3, 0))
             @@ ("BTCETH" :> Dec(20, 0)) @@ ("ETHBTC" :> Dec(5, -2))
TickerD == ("BTCUSDT" :> Dec(60, 0)) @@ ("ETHUSDT" :> Dec(3, 0))
             @@ ("BTCETH" :> Dec(20, 0)) @@ ("ETHBTC" :> Dec(6, -2))
RoundTripTickers == {TickerA, TickerC, TickerD}

\* What get_yahoo_rate returns for a pair: nothing, the pair's quote, or,
\* Yahoo quoting each direction of a pair on its own, a GBPUSD quote that
\* is not the reciprocal of the USDGBP quote.
RoundTripRates(key) ==
    {None, YahooQuote(key)} \cup (IF key = "GBPUSD=X" THEN {Dec(15, -1)} ELSE {})

RoundTripInit ==
    /\ CACHE = [ecb     |-> [data |-> None, timestamp |-> 0],
                binance |-> [data |-> None, timestamp |-> 0],
                yahoo   |-> [data |-> EmptyMap, timestamp |-> 0]]
    /\ clock = StartTime
    /\ ticks = 0
    /\ started = 1
    /\ pc = [p \in Procs |-> IF p = 1 THEN "route" ELSE "idle"]
    /\ \E r \in RouterRequests :
           req = [p \in Procs |-> IF p = 1 THEN r ELSE Request("", "", Dec(0, 0))]
    /\ now = [p \in Procs |-> 0]
    /\ \E b \in Baskets : ecb_rates = [p \in Procs |-> IF p = 1 THEN b ELSE None]
    /\ \E t \in RoundTripTickers :
           binance_prices = [p \in Procs |-> IF p = 1 THEN t ELSE None]
    /\ pair = [p \in Procs |-> ""]
    /\ yahoo_rate = [p \in Procs |-> None]
    /\ result = [p \in Procs |-> NoResult]
    /\ rd = [p \in Procs |-> NoCalls]
    /\ prev = [p \in Procs |-> NoFailures]
    /\ fetchedAt = [ecb |-> -1, binance |-> -1, yahoo |-> EmptyMap]

\* The second request arrives (lines 129-134): the codes of the first
\* swapped, its converted field as the amount, the same basket and ticker.
convert_back_start ==
    /\ pc[1] = "done"
    /\ result[1].status = 200
    /\ pc[2] = "idle"
    /\ pc' = [pc EXCEPT ![2] = "route"]
    /\ started' = started + 1
    /\ req' = [req EXCEPT ![2] = Request(req[1].to, req[1].from,
                                         Dec(result[1].converted, -ModelDecimals))]
    /\ ecb_rates' = [ecb_rates EXCEPT ![2] = ecb_rates[1]]
    /\ binance_prices' = [binance_prices EXCEPT ![2] = binance_prices[1]]
    /\ UNCHANGED <<CACHE, clock, ticks, now, pair, yahoo_rate, result, rd, prev,
                   fetchedAt>>

RoundTripNext ==
    \/ \E key \in {pair_key(b, q) : b \in Codes, q \in Codes} :
          \E rate \in RoundTripRates(key) :
              convert_router(1, rate) /\ pair'[1] \in {"", key}
    \/ convert_back_start
    \/ \E key \in {pair_key(b, q) : b \in Codes, q \in Codes} :
          \E rate \in RoundTripRates(key) :
              /\ convert_router(2, rate)
              /\ pair'[2] \in {"", key}
              /\ (rd[1].yahoo.called /\ pair[1] = key) => rate = yahoo_rate[1]

SpecRoundTrip == RoundTripInit /\ [][RoundTripNext]_vars

(***************************************************************************)
(* Properties.                                                             *)
(***************************************************************************)
Sources == {"ecb", "binance", "yahoo"}

\* C1: for each source (and, for the fiat pair source, each pair), a read
\* made less than the TTL after the read that fetched the cached value
\* makes no upstream request, and a read made when no value was fetched
\* yet or the TTL after the fetch or later makes one.  (A read whose
\* fetch failed stored nothing and does not count as a first read.)
C1_CacheFreshness ==
    \A p \in Procs, src \in Sources :
        rd[p][src].called => (rd[p][src].hit <=> rd[p][src].found = "fresh")

\* The step of p is the arrival of a failed answer from the ECB.
EcbFailure(p) ==
    pc[p] = "ecb_wait" /\ pc'[p] # "ecb_wait" /\ rd'[p].ecb.resp = "fail"

\* C2: when the fetch of the basket fails, get_ecb_rates returns the
\* cached mapping if there is one, however old, and the request goes on
\* with it; the cache entry and its timestamp stay as they were; the
\* request ends with the 503 only where no mapping was ever cached.
C2_StaleWhileError ==
    [][\A p \in Procs :
          /\ EcbFailure(p) =>
                /\ CACHE' = CACHE
                /\ IF CACHE["ecb"].data # None
                   THEN /\ ecb_rates'[p] = CACHE["ecb"].data
                        /\ result'[p].status # 503
                   ELSE /\ pc'[p] = "done"
                        /\ result'[p] = HttpError(503, "ECB service unavailable")
          /\ (result'[p].status = 503 /\ result[p].status # 503) =>
                EcbFailure(p) /\ fetchedAt.ecb < 0]_vars

\* A request was served a basket older than the TTL after the fetch failed.
C2_Witness ==
    \E p \in Procs :
        /\ rd[p].ecb.resp = "fail"
        /\ rd[p].ecb.found = "expired"
        /\ ecb_rates[p] = CACHE["ecb"].data
        /\ ecb_rates[p] # None
        /\ pc[p] = "done"
        /\ result[p].status = 200

\* C3: a request whose basket fetch failed while no basket was ever
\* cached ends with the 503 whatever its pair; neither the ticker nor the
\* pair provider is consulted.
C3_NoBasketIs503 ==
    \A p \in Procs :
        (rd[p].ecb.resp = "fail" /\ rd[p].ecb.found = "none") =>
            /\ pc[p] = "done"
            /\ result[p] = HttpError(503, "ECB service unavailable")
            /\ ~rd[p].binance.called
            /\ ~rd[p].yahoo.called

\* A crypto to crypto request ended with the 503.
C3_Witness ==
    \E p \in Procs :
        /\ rd[p].ecb.resp = "fail"
        /\ rd[p].ecb.found = "none"
        /\ ~in_basket(req[p].from, BasketFull)
        /\ ~in_basket(req[p].to, BasketFull)
        /\ req[p].from \o req[p].to \in DOMAIN TickerA
        /\ result[p].status = 503

\* C4: when the fetch of the ticker fails, get_binance_prices returns an
\* empty mapping, whatever is cached; when the fetch of a pair fails,
\* get_yahoo_rate returns None and the handler goes on as the router does
\* with no pair rate; neither changes the cache.
C4_FailuresNotFatal ==
    [][\A p \in Procs :
          /\ (pc[p] = "binance_wait" /\ pc'[p] # "binance_wait"
                 /\ rd'[p].binance.resp = "fail") =>
                /\ CACHE' = CACHE
                /\ binance_prices'[p] = EmptyMap
                /\ result'[p].status \notin {500, 503}
          /\ (pc[p] = "yahoo_wait" /\ pc'[p] # "yahoo_wait"
                 /\ rd'[p].yahoo.resp = "fail") =>
                /\ CACHE' = CACHE
                /\ yahoo_rate'[p] = None
                /\ pc'[p] = "done"
                /\ result'[p] = convert_resume(req[p].from, req[p].to, req[p].amount,
                                               ecb_rates[p], binance_prices[p], None)]_vars

\* Both fetches of a request failed, an expired ticker being cached.
C4_Witness ==
    \E p \in Procs :
        /\ rd[p].binance.resp = "fail"
        /\ rd[p].binance.found = "expired"
        /\ CACHE["binance"].data # None
        /\ binance_prices[p] = EmptyMap
        /\ rd[p].yahoo.resp = "fail"
        /\ pc[p] = "done"

\* The request of p ended, its codes being from and to and its basket b.
Ended(p) == pc[p] = "done" /\ ecb_rates[p] # None
IsFiat(code, p) == code \in DOMAIN ecb_rates[p]

\* The mapping lists the symbol / lists it with a price that is not 0.
Listed(prices, symbol) == symbol \in DOMAIN prices
Priced(prices, symbol) == Listed(prices, symbol) /\ prices[symbol].c # 0
\* get_yahoo_rate returned a rate / one that is not 0.
Returned(rate) == rate # None
Usable(rate) == Returned(rate) /\ rate.c # 0

\* C5: a crypto to fiat request ends with the 400 for the crypto if
\* from+USDT has no price, else with that price via binance if to is USD,
\* the pair provider not being called; else with price * pair rate via
\* binance+yahoo if the provider returns a rate for (USD, to), else with
\* price * (1 / basket[USD]) * basket[to] via binance+ecb.  (A price or a
\* rate of 0 is read as none here.)
C5_CryptoToFiat ==
    \A p \in Procs :
        (Ended(p) /\ ~IsFiat(req[p].from, p) /\ IsFiat(req[p].to, p)) =>
            LET r == req[p]
                b == ecb_rates[p]
                symbol == r.from \o "USDT"
                price == binance_prices[p][symbol]
            IN  IF ~Priced(binance_prices[p], symbol)
                THEN /\ result[p] = HttpError(400, "Unsupported crypto")
                     /\ ~rd[p].yahoo.called
                ELSE IF r.to = "USD"
                THEN /\ result[p].status = 200
                     /\ result[p].rate = fmt(price)
                     /\ result[p].via = "binance"
                     /\ ~rd[p].yahoo.called
                ELSE /\ rd[p].yahoo.called
                     /\ pair[p] = "USD" \o r.to \o "=X"
                     /\ result[p].status = 200
                     /\ IF Usable(yahoo_rate[p])
                        THEN /\ result[p].rate = fmt(DecMul(price, yahoo_rate[p]))
                             /\ result[p].via = "binance+yahoo"
                        ELSE /\ result[p].rate =
                                    fmt(DecMul(DecMul(price, DecDiv(Dec(1, 0), b["USD"])),
                                               b[r.to]))
                             /\ result[p].via = "binance+ecb"

\* C6: a fiat to crypto request ends with the 400 for the target crypto
\* if to+USDT has no price, the pair provider not being called; else
\* usd_amount is amount * pair rate (via yahoo+binance) if the provider
\* returns a rate for (from, USD) and amount / basket[from] * basket[USD]
\* (via ecb+binance) if not, converted is usd_amount / price and rate is
\* usd_amount / (amount * price), for every amount.  (A price or a rate
\* of 0 is read as none here.)
C6_FiatToCrypto ==
    \A p \in Procs :
        (Ended(p) /\ IsFiat(req[p].from, p) /\ ~IsFiat(req[p].to, p)) =>
            LET r == req[p]
                b == ecb_rates[p]
                symbol == r.to \o "USDT"
                price == binance_prices[p][symbol]
                usd_amount ==
                    IF Usable(yahoo_rate[p]) THEN DecMul(r.amount, yahoo_rate[p])
                    ELSE DecMul(DecDiv(r.amount, b[r.from]), b["USD"])
            IN  IF ~Priced(binance_prices[p], symbol)
                THEN /\ result[p] = HttpError(400, "Unsupported target crypto")
                     /\ ~rd[p].yahoo.called
                ELSE /\ rd[p].yahoo.called
                     /\ pair[p] = r.from \o "USD=X"
                     /\ result[p].status = 200
                     /\ result[p].via =
                           IF Usable(yahoo_rate[p]) THEN "yahoo+binance" ELSE "ecb+binance"
                     /\ result[p].converted = fmt(DecDiv(usd_amount, price))
                     /\ result[p].rate = fmt(DecDiv(usd_amount, DecMul(r.amount, price)))

\* What a fiat to fiat request ends with, given whether the rate the pair
\* provider returned is taken.
FiatToFiat(p, taken) ==
    LET r == req[p]
        b == ecb_rates[p]
    IN  /\ rd[p].yahoo.called
        /\ pair[p] = r.from \o r.to \o "=X"
        /\ result[p].status = 200
        /\ result[p].amount = fmt(r.amount)
        /\ IF taken
           THEN /\ result[p].via = "yahoo"
                /\ result[p].rate = fmt(yahoo_rate[p])
                /\ result[p].converted = fmt(DecMul(r.amount, yahoo_rate[p]))
           ELSE /\ result[p].via = "ecb"
                /\ result[p].rate = fmt(DecDiv(b[r.to], b[r.from]))
                /\ result[p].converted = fmt(DecMul(DecDiv(r.amount, b[r.from]), b[r.to]))

\* C7 as stated: a fiat to fiat request ends with the pair provider's
\* rate via yahoo whenever the provider returns a rate, and else with
\* rate = basket[to] / basket[from], converted = amount / basket[from] *
\* basket[to] via ecb; it never fails.
C7_FiatToFiat ==
    \A p \in Procs :
        (Ended(p) /\ IsFiat(req[p].from, p) /\ IsFiat(req[p].to, p)) =>
            FiatToFiat(p, Returned(yahoo_rate[p]))

\* C7, amended: a fiat to fiat request ends with the pair provider's rate
\* via yahoo whenever the provider returns a rate that is not 0, and else
\* (no rate, or a rate of 0) with rate = basket[to] / basket[from],
\* converted = amount / basket[from] * basket[to] via ecb; it never fails.
C7_FiatToFiat_Amended ==
    \A p \in Procs :
        (Ended(p) /\ IsFiat(req[p].from, p) /\ IsFiat(req[p].to, p)) =>
            FiatToFiat(p, Usable(yahoo_rate[p]))

\* A fiat to fiat request crossed through the basket, the pair provider
\* having returned a rate of 0.
C7_Witness ==
    \E p \in Procs :
        /\ Ended(p) /\ IsFiat(req[p].from, p) /\ IsFiat(req[p].to, p)
        /\ req[p].from # req[p].to
        /\ req[p].amount.c # 0
        /\ Returned(yahoo_rate[p]) /\ ~Usable(yahoo_rate[p])
        /\ result[p].via = "ecb"

\* What a crypto to crypto request ends with, given whether the direct
\* symbol is taken and whether both USDT prices are there.
CryptoToCrypto(p, direct, both) ==
    LET r == req[p]
        prices == binance_prices[p]
        from_usd == prices[r.from \o "USDT"]
        to_usd == prices[r.to \o "USDT"]
    IN  /\ ~rd[p].yahoo.called
        /\ IF direct
           THEN /\ result[p].status = 200
                /\ result[p].via = "direct"
                /\ result[p].rate = fmt(prices[r.from \o r.to])
           ELSE IF ~both
           THEN result[p] = HttpError(400, "Unsupported crypto pair")
           ELSE /\ result[p].status = 200
                /\ result[p].via = "USDT"
                /\ result[p].rate = fmt(DecDiv(from_usd, to_usd))
                /\ result[p].converted = fmt(DecDiv(DecMul(r.amount, from_usd), to_usd))

\* C8 as stated: a crypto to crypto request ends with the price of the
\* symbol from+to via direct if the mapping lists that symbol; else with
\* the 400 for the pair if from+USDT or to+USDT is missing; else with
\* rate = from+USDT price / to+USDT price and converted = amount *
\* from+USDT price / to+USDT price via USDT.
C8_CryptoToCrypto ==
    \A p \in Procs :
        (Ended(p) /\ ~IsFiat(req[p].from, p) /\ ~IsFiat(req[p].to, p)) =>
            CryptoToCrypto(p, Listed(binance_prices[p], req[p].from \o req[p].to),
                           /\ Listed(binance_prices[p], req[p].from \o "USDT")
                           /\ Listed(binance_prices[p], req[p].to \o "USDT"))

\* C8, amended: a crypto to crypto request ends with the price of the
\* symbol from+to via direct if the mapping lists that symbol with a
\* price that is not 0; else with the 400 for the pair if from+USDT or
\* to+USDT is missing or has the price 0; else with rate = from+USDT
\* price / to+USDT price and converted = amount * from+USDT price /
\* to+USDT price via USDT.
C8_CryptoToCrypto_Amended ==
    \A p \in Procs :
        (Ended(p) /\ ~IsFiat(req[p].from, p) /\ ~IsFiat(req[p].to, p)) =>
            CryptoToCrypto(p, Priced(binance_prices[p], req[p].from \o req[p].to),
                           /\ Priced(binance_prices[p], req[p].from \o "USDT")
                           /\ Priced(binance_prices[p], req[p].to \o "USDT"))

\* A crypto to crypto request went over USDT, the mapping listing its
\* direct symbol with the price 0.
C8_Witness ==
    \E p \in Procs :
        /\ Ended(p) /\ ~IsFiat(req[p].from, p) /\ ~IsFiat(req[p].to, p)
        /\ Listed(binance_prices[p], req[p].from \o req[p].to)
        /\ ~Priced(binance_prices[p], req[p].from \o req[p].to)
        /\ req[p].amount.c # 0
        /\ result[p].via = "USDT"

\* C9: a provider returns a cached value without an upstream request only
\* if that value (for the pair provider: the rate of that pair) was
\* fetched less than the source's TTL ago.
C9_UsedOnlyWhileFresh ==
    \A p \in Procs, src \in Sources :
        (rd[p][src].called /\ rd[p][src].hit) => rd[p][src].found = "fresh"

\* The ways a request ends and the pair it asks the pair provider for,
\* its codes being classified as fiat or crypto.
Vias(from_fiat, to_fiat) ==
    IF ~from_fiat /\ ~to_fiat THEN {"direct", "USDT"}
    ELSE IF ~from_fiat THEN {"binance", "binance+yahoo", "binance+ecb"}
    ELSE IF ~to_fiat THEN {"yahoo+binance", "ecb+binance"}
    ELSE {"yahoo", "ecb"}
Details(from_fiat, to_fiat) ==
    IF ~from_fiat /\ ~to_fiat THEN {"Unsupported crypto pair"}
    ELSE IF ~from_fiat THEN {"Unsupported crypto"}
    ELSE IF ~to_fiat THEN {"Unsupported target crypto"}
    ELSE {}
Pairs(from, to, from_fiat, to_fiat) ==
    IF ~from_fiat /\ ~to_fiat THEN {}
    ELSE IF ~from_fiat THEN {"USD" \o to \o "=X"}
    ELSE IF ~to_fiat THEN {from \o "USD=X"}
    ELSE {from \o to \o "=X"}

\* C10: the basket a request got from get_ecb_rates stays the request's
\* basket until the request ends, and everything the request does (the
\* pair it asks the pair provider for, the error it raises, the route of
\* its result) is what the router does with its codes classified by that
\* basket: a code that is a key of it is never handled as crypto, whatever
\* symbols the ticker lists and whatever basket the cache holds by then.
C10_ClassifiedOnce ==
    [][\A p \in Procs :
          /\ (pc[p] \in {"binance_wait", "yahoo_wait"}) => ecb_rates'[p] = ecb_rates[p]
          /\ (pc'[p] \in {"binance_wait", "yahoo_wait", "done"} /\ ecb_rates'[p] # None) =>
                LET from_fiat == req'[p].from \in DOMAIN ecb_rates'[p]
                    to_fiat == req'[p].to \in DOMAIN ecb_rates'[p]
                IN  /\ rd'[p].yahoo.called =>
                          pair'[p] \in Pairs(req'[p].from, req'[p].to, from_fiat, to_fiat)
                    /\ result'[p].status = 200 =>
                          result'[p].via \in Vias(from_fiat, to_fiat)
                    /\ result'[p].status = 400 =>
                          result'[p].detail \in Details(from_fiat, to_fiat)]_vars

\* A request whose basket lists GBP ended as a fiat request after another
\* request had replaced the cached basket by one without GBP, the ticker
\* listing GBPUSDT.
C10_Witness ==
    \E p \in Procs :
        /\ pc[p] = "done"
        /\ ecb_rates[p] # None
        /\ req[p].to = "GBP"
        /\ "GBP" \in DOMAIN ecb_rates[p]
        /\ CACHE["ecb"].data # None
        /\ "GBP" \notin DOMAIN CACHE["ecb"].data
        /\ "GBPUSDT" \in DOMAIN binance_prices[p]
        /\ result[p].status = 200
        /\ result[p].via \in {"yahoo", "ecb", "binance+yahoo", "binance+ecb"}

\* The returned fields count units of 10^-decimals.
Unit == Pow10(ModelDecimals)
Abs(n) == IF n < 0 THEN -n ELSE n

\* C11 as stated: the converted field of a successful conversion is the
\* amount field times the rate field, rounded to the decimals of fmt.
C11_ConvertedIsAmountTimesRate ==
    \A p \in Procs :
        (pc[p] = "done" /\ result[p].status = 200) =>
            LET product == result[p].amount * result[p].rate
            IN  result[p].converted = HalfEven(product \div Unit, product % Unit, Unit)

\* C11, amended: the converted field of a successful conversion is the
\* amount times the rate as they are before fmt rounds the three fields:
\* between the returned fields, converted differs from amount * rate by
\* no more than the roundings allow, half a unit of the last digit for
\* converted, times the rate for amount and times the amount for rate,
\* besides the rounding of the arithmetic (up to four operations of half
\* a unit of the last significant digit of the context each way).
C11_ConvertedIsAmountTimesRate_Amended ==
    \A p \in Procs :
        (pc[p] = "done" /\ result[p].status = 200) =>
            LET product == result[p].amount * result[p].rate
                fields == Unit \div 2 + (result[p].amount + result[p].rate) \div 2 + 1
                arithmetic == (4 * result[p].converted * Unit) \div Pow10(ModelPrec - 1)
            IN  Abs(result[p].converted * Unit - product) <= fields + arithmetic

\* A conversion whose converted field is not the rounded product of its
\* amount and rate fields.
C11_Witness ==
    \E p \in Procs :
        /\ pc[p] = "done" /\ result[p].status = 200
        /\ result[p].via = "ecb"
        /\ result[p].amount > 0
        /\ LET product == result[p].amount * result[p].rate
           IN  result[p].converted # HalfEven(product \div Unit, product % Unit, Unit)

\* Both legs of a round trip ended with a result.
BothLegs ==
    /\ pc[1] = "done" /\ result[1].status = 200
    /\ pc[2] = "done" /\ result[2].status = 200

\* The two legs went by the same strategy, or by mirrored ones.
SameClass(via, back) ==
    \/ via = back /\ via \in {"direct", "USDT", "yahoo", "ecb"}
    \/ {via, back} = {"binance+yahoo", "yahoo+binance"}
    \/ {via, back} = {"binance+ecb", "ecb+binance"}

\* The quotes the two legs read are each other's reciprocal, where the
\* strategy reads one quote for each direction: the two direct symbols,
\* the two pair rates.
Reciprocal(a, b) == DecMul(a, b) = Dec(1, 0)
ReciprocalQuotes ==
    CASE result[1].via = "direct" ->
             Reciprocal(binance_prices[1][req[1].from \o req[1].to],
                        binance_prices[1][req[1].to \o req[1].from])
      [] result[1].via \in {"yahoo", "binance+yahoo", "yahoo+binance"} ->
             Reciprocal(yahoo_rate[1], yahoo_rate[2])
      [] OTHER -> TRUE

\* The amount came back: the second leg's converted field is the first
\* leg's amount field but for the rounding of the first leg's converted
\* field (half a unit of the last digit, times the rate of the way back),
\* of the second leg's (half a unit) and of the arithmetic (up to four
\* operations a leg, half a unit of the last significant digit each).
CameBack ==
    LET fields == result[2].rate \div (2 * Unit) + 2
        arithmetic == (4 * result[1].amount) \div Pow10(ModelPrec - 1)
    IN  Abs(result[2].converted - result[1].amount) <= fields + arithmetic

\* C12 as stated: a conversion and the conversion of its result back, on
\* the same provider data, return the amount within rounding whenever
\* both succeed by the same strategy class.
C12_RoundTrip ==
    (BothLegs /\ SameClass(result[1].via, result[2].via)) => CameBack

\* C12, amended: ... whenever both succeed by the same strategy class and
\* the quotes that class reads for the two directions (the direct symbols
\* from+to and to+from; the pair rates of the two legs) are each other's
\* reciprocal.  The USDT and ecb classes and the binance+ecb / ecb+binance
\* pair read the same prices both ways.
C12_RoundTrip_Amended ==
    (BothLegs /\ SameClass(result[1].via, result[2].via) /\ ReciprocalQuotes) => CameBack

\* A round trip came back by each kind of class: one that reads the same
\* prices both ways, one that reads two quotes.
C12_Witness ==
    /\ BothLegs
    /\ SameClass(result[1].via, result[2].via)
    /\ result[1].via \in {"direct", "yahoo"}
    /\ ReciprocalQuotes
    /\ req[1].from # req[1].to
    /\ result[1].amount > 0
    /\ CameBack

Rank(at) ==
    CASE at = "ecb_wait" -> 1
      [] at = "binance_wait" -> 2
      [] at = "yahoo_wait" -> 3
      [] at = "done" -> 4
      [] OTHER -> 0

\* C14: every step of a request either is the arrival of a new request
\* or takes the handler further: the handler waits for each source at
\* most once in a request, whether the answer is a failure or not, so a
\* request attempts each upstream at most once.
C14_OneAttemptPerSource ==
    [][\A p \in Procs :
          (pc'[p] # pc[p] \/ rd'[p] # rd[p]) =>
              \/ pc[p] \in {"idle", "done"} /\ started' = started + 1
              \/ Rank(pc'[p]) > Rank(pc[p])]_vars

\* A request attempted the three upstreams, two of them failing, and
\* ended.
C14_Witness ==
    \E p \in Procs :
        /\ pc[p] = "done"
        /\ rd[p].ecb.called /\ ~rd[p].ecb.hit /\ rd[p].ecb.resp = "ok"
        /\ rd[p].binance.called /\ ~rd[p].binance.hit /\ rd[p].binance.resp = "fail"
        /\ rd[p].yahoo.called /\ ~rd[p].yahoo.hit /\ rd[p].yahoo.resp = "fail"
        /\ result[p].status = 200

(***************************************************************************)
(* C15.  A failed fetch leaves no trace.                                   *)
(***************************************************************************)
\* The request p is answered by the upstream of source, in this step.
Answered(p, source) == rd[p][source].resp = "none" /\ rd'[p][source].resp = "ok"

\* C15: when the fetch of the ticker, or of a pair, failed in a request,
\* the next request (none being served in between) that calls the same
\* provider, for the same pair, does not pass the cache test: it sends the
\* request upstream again, and when the upstream answers it the handler
\* goes on with the answer, which is what the cache holds from then on.
C15_FailureNotRemembered ==
    [][\A p \in Procs :
          /\ (prev'[p].binance /\ rd'[p].binance.called) => ~rd'[p].binance.hit
          /\ (prev'[p].yahoo # "" /\ rd'[p].yahoo.called /\ prev'[p].yahoo = pair'[p])
                => ~rd'[p].yahoo.hit
          /\ (prev[p].binance /\ Answered(p, "binance")) =>
                /\ binance_prices'[p] = CACHE'["binance"].data
                /\ CACHE'["binance"].timestamp = now[p]
                /\ binance_prices'[p] \in Tickers
          /\ (prev[p].yahoo # "" /\ prev[p].yahoo = pair[p] /\ Answered(p, "yahoo")) =>
                /\ yahoo_rate'[p] = CACHE'["yahoo"].data[pair[p]]
                /\ CACHE'["yahoo"].timestamp = now[p]
                /\ yahoo_rate'[p] \in YahooQuotes(pair[p])]_vars

\* A request is over in which the ticker and the pair were both fetched,
\* after the request before it failed to fetch the ticker and the same pair.
C15_Witness ==
    /\ pc[1] = "done"
    /\ prev[1].binance /\ rd[1].binance.resp = "ok"
    /\ pair[1] # "" /\ prev[1].yahoo = pair[1] /\ rd[1].yahoo.resp = "ok"
    /\ result[1].status = 200

(***************************************************************************)
(* C16.  What a successful fetch writes.                                   *)
(***************************************************************************)
\* The cache entries of the sources other than source are left alone.
OthersKept(source) == \A other \in Sources \ {source} : CACHE'[other] = CACHE[other]

\* C16: a step in which Yahoo answers with a quote writes the quote under
\* the pair that was asked and the call's time as the timestamp of all the
\* pairs, and every other pair keeps the rate it had; no step removes a
\* pair.  A step in which the ECB or Binance answers with a body makes the
\* body, as it is, and the call's time the cache entry of that source.  In
\* each case the entries of the other two sources are left alone.
C16_FrameOfAFetch ==
    [][/\ DOMAIN CACHE["yahoo"].data \subseteq DOMAIN CACHE'["yahoo"].data
       /\ \A p \in Procs :
            /\ Answered(p, "yahoo") =>
                  /\ DOMAIN CACHE'["yahoo"].data = DOMAIN CACHE["yahoo"].data \cup {pair[p]}
                  /\ CACHE'["yahoo"].data[pair[p]] = yahoo_rate'[p]
                  /\ \A k \in DOMAIN CACHE["yahoo"].data \ {pair[p]} :
                        CACHE'["yahoo"].data[k] = CACHE["yahoo"].data[k]
                  /\ CACHE'["yahoo"].timestamp = now[p]
                  /\ OthersKept("yahoo")
            /\ Answered(p, "ecb") =>
                  /\ CACHE'["ecb"] = [data |-> ecb_rates'[p], timestamp |-> now[p]]
                  /\ ecb_rates'[p] \in Baskets
                  /\ OthersKept("ecb")
            /\ Answered(p, "binance") =>
                  /\ CACHE'["binance"] = [data |-> binance_prices'[p], timestamp |-> now[p]]
                  /\ binance_prices'[p] \in Tickers
                  /\ OthersKept("binance")]_vars

\* The quote of USD/GBP was fetched over one that had expired, the cache
\* holds the new one, and the quote of GBP/USD fetched before it is still
\* there under the new timestamp.
C16_Witness ==
    /\ pc[1] = "done" /\ pair[1] = "USDGBP=X"
    /\ rd[1].yahoo.resp = "ok" /\ rd[1].yahoo.found = "expired"
    /\ CACHE["yahoo"].data["USDGBP=X"] = yahoo_rate[1]
    /\ "GBPUSD=X" \in DOMAIN CACHE["yahoo"].data
    /\ fetchedAt.yahoo["GBPUSD=X"] < fetchedAt.yahoo["USDGBP=X"]
    /\ CACHE["yahoo"].timestamp = fetchedAt.yahoo["USDGBP=X"]

(***************************************************************************)
(* C17.  The outcomes of a request.                                        *)
(***************************************************************************)
\* C17: every request that is over ended with a result (200), with a
\* client error (400) or with the unavailability of an upstream (503),
\* whatever the amount, the basket, the ticker and the pair rate are.
C17_ThreeOutcomes ==
    \A p \in Procs : pc[p] = "done" => result[p].status \in {200, 400, 503}

(***************************************************************************)
(* C18.  The timestamps of the cache.                                      *)
(***************************************************************************)
\* C18: no step, of any request in any interleaving, lowers the timestamp
\* the cache holds for a source.
C18_TimestampsNeverDecrease ==
    [][\A source \in Sources :
          CACHE'[source].timestamp >= CACHE[source].timestamp]_vars

====
